---- MODULE Spec2Model ----
(***************************************************************************)
(* Model of examples/benchmark-device.py: the sweep over dataset sizes and *)
(* devices (lines 64-107), the Timer context manager (lines 57-62), the    *)
(* textbox helper (lines 109-165) and the final plot (lines 167-182).      *)
(*                                                                         *)
(* The script is a straight-line program, so the model is a program        *)
(* counter `pc` over its statements.  Python names that can be unbound     *)
(* (X, y, state, keys, task) are records with a `bound` field.  `log` is   *)
(* a history variable: the sequence of statements executed so far, with    *)
(* the loop indices and the clock value at which each was executed.        *)
(***************************************************************************)
EXTENDS Integers, Sequences, FiniteSets, TLC

VARIABLES
    nvec,        \* configured dataset sizes (line 23)
    devices,     \* configured device labels, in dict order (line 12)
    pc,          \* next statement of the script
    i,           \* index in nvec of the current n (0 before the loop)
    j,           \* index in devices of the current device (0 outside the loop)
    key,         \* the root random key (lines 55, 70)
    subkey1,     \* key of X (line 70)
    subkey2,     \* key of the response noise (line 70)
    subkey3,     \* key split into the chain keys (line 70)
    keys,        \* the chain keys (lines 85-86)
    X,           \* covariates (line 71)
    y,           \* response (line 72)
    state,       \* the name `state` (lines 75, 86, 104)
    task,        \* the name `task` (lines 89-93)
    timer,       \* the Timer object bound by the with statement (line 96)
    clock,       \* time.perf_counter()
    outstanding, \* the dispatched computation has not been materialised yet
    exc,         \* an exception is propagating out of the with block
    times,       \* the results table (line 64)
    uses,        \* history: every key passed to a split or a draw
    log,         \* history: the statements executed
    annotations  \* the calls ax.annotate has received

vars == <<nvec, devices, pc, i, j, key, subkey1, subkey2, subkey3, keys, X, y,
          state, task, timer, clock, outstanding, exc, times, uses, log,
          annotations>>

sweepvars == <<nvec, devices, pc, i, j, key, subkey1, subkey2, subkey3, keys,
               X, y, state, task, timer, clock, outstanding, exc, times, uses,
               log>>

----------------------------------------------------------------------------
(* Bounds of the model *)

MaxSize == 2    \* dataset sizes are drawn from 1..MaxSize
MaxTick == 2    \* a compilation or a task execution takes 1..MaxTick ticks
MaxCalls == 2   \* textbox calls in the textbox specification

(* Program constants *)

nchains == 8
M == 8

----------------------------------------------------------------------------
(* Configuration *)

DeviceLabels == {"cpu", "gpu"}

\* nvec is a non-empty increasing list of sizes
SizeLists ==
    {s \in UNION {[1..k -> 1..MaxSize] : k \in 1..MaxSize} :
        \A a, b \in DOMAIN s : a < b => s[a] < s[b]}

\* devices is a dict: a non-empty list of distinct labels in insertion order
DeviceLists ==
    {d \in UNION {[1..k -> DeviceLabels] : k \in 1..Cardinality(DeviceLabels)} :
        \A a, b \in DOMAIN d : a # b => d[a] # d[b]}

----------------------------------------------------------------------------
(* Random keys.  A key is the path of child indices that derives it from   *)
(* the root key; random.split(k, num) returns the num children of k.       *)

RootKey == <<>>
NoKey == <<0>>

split(k, num) == [c \in 1..num |-> Append(k, c)]

Use(k, by) == [key |-> k, by |-> by]

\* the uses made of every key of the tuple ks, in order
UseAll(ks, by) == [c \in DOMAIN ks |-> Use(ks[c], by)]

----------------------------------------------------------------------------
(* Python names *)

NoData == [bound |-> FALSE, n |-> 0, key |-> NoKey]
NoState == [bound |-> FALSE, n |-> 0, on |-> "none"]
NoKeys == [bound |-> FALSE, ks |-> <<>>, on |-> "none"]
NoTask == [bound |-> FALSE, kind |-> "none", n |-> 0, on |-> "none"]
NoTime == -1
NoTimer == [start |-> NoTime, time |-> NoTime]

Ev(op) == [op |-> op, i |-> i, j |-> j, t |-> clock]

NoTimes == [l \in {} |-> <<>>]

----------------------------------------------------------------------------
Init ==
    /\ nvec \in SizeLists
    /\ devices \in DeviceLists
    /\ pc = "forN"
    /\ i = 0
    /\ j = 0
    /\ key = RootKey
    /\ subkey1 = NoKey
    /\ subkey2 = NoKey
    /\ subkey3 = NoKey
    /\ keys = NoKeys
    /\ X = NoData
    /\ y = NoData
    /\ state = NoState
    /\ task = NoTask
    /\ timer = NoTimer
    /\ clock = 0
    /\ outstanding = FALSE
    /\ exc = FALSE
    /\ times = NoTimes
    /\ uses = <<>>
    /\ log = <<>>
    /\ annotations = <<>>

----------------------------------------------------------------------------
(* The sweep, lines 64-107 *)

n == nvec[i]
label == devices[j]

Logged(op) == Append(log, Ev(op))

\* line 65: for n in nvec; after the last n the script goes on to the plot
ForN ==
    /\ pc = "forN"
    /\ IF i < Len(nvec)
          THEN /\ i' = i + 1
               /\ pc' = "split"
          ELSE /\ i' = i
               /\ pc' = "plot"
    /\ UNCHANGED <<nvec, devices, j, key, subkey1, subkey2, subkey3, keys, X,
                   y, state, task, timer, clock, outstanding, exc, times, uses,
                   log, annotations>>

\* line 70: key, subkey1, subkey2, subkey3 = random.split(key, 4)
SplitKey ==
    /\ pc = "split"
    /\ key' = split(key, 4)[1]
    /\ subkey1' = split(key, 4)[2]
    /\ subkey2' = split(key, 4)[3]
    /\ subkey3' = split(key, 4)[4]
    /\ uses' = Append(uses, Use(key, "split"))
    /\ log' = Logged("split")
    /\ pc' = "genX"
    /\ UNCHANGED <<nvec, devices, i, j, keys, X, y, state, task, timer, clock,
                   outstanding, exc, times, annotations>>

\* lines 49-50, 71: X = gen_X(subkey1, p, n)
GenX ==
    /\ pc = "genX"
    /\ X' = [bound |-> TRUE, n |-> n, key |-> subkey1]
    /\ uses' = Append(uses, Use(subkey1, "uniform"))
    /\ log' = Logged("genX")
    /\ pc' = "genY"
    /\ UNCHANGED <<nvec, devices, i, j, key, subkey1, subkey2, subkey3, keys,
                   y, state, task, timer, clock, outstanding, exc, times,
                   annotations>>

\* line 72: y = f(X) + sigma * random.normal(subkey2, (n,))
GenY ==
    /\ pc = "genY"
    /\ y' = [bound |-> TRUE, n |-> n, key |-> subkey2]
    /\ uses' = Append(uses, Use(subkey2, "normal"))
    /\ log' = Logged("genY")
    /\ pc' = "build"
    /\ UNCHANGED <<nvec, devices, i, j, key, subkey1, subkey2, subkey3, keys,
                   X, state, task, timer, clock, outstanding, exc, times,
                   annotations>>

\* line 75: state = bartz.BART.gbart(X, y, ..., seed=0)._mcmc_state
BuildState ==
    /\ pc = "build"
    /\ state' = [bound |-> TRUE, n |-> X.n, on |-> "host"]
    /\ log' = Logged("build")
    /\ pc' = "delData"
    /\ UNCHANGED <<nvec, devices, i, j, key, subkey1, subkey2, subkey3, keys,
                   X, y, task, timer, clock, outstanding, exc, times, uses,
                   annotations>>

\* a slip: the dataset is not released after the state is built
DelDataSkipped ==
    /\ pc = "delData"
    /\ log' = Logged("delData")
    /\ pc' = "gcData"
    /\ UNCHANGED <<nvec, devices, i, j, key, subkey1, subkey2, subkey3, keys,
                   X, y, state, task, timer, clock, outstanding, exc, times,
                   uses, annotations>>

\* line 78: del X, y
DelData ==
    /\ pc = "delData"
    /\ X' = NoData
    /\ y' = NoData
    /\ log' = Logged("delData")
    /\ pc' = "gcData"
    /\ UNCHANGED <<nvec, devices, i, j, key, subkey1, subkey2, subkey3, keys,
                   state, task, timer, clock, outstanding, exc, times, uses,
                   annotations>>

\* line 79: gc.collect()
GcData ==
    /\ pc = "gcData"
    /\ log' = Logged("gc")
    /\ pc' = "forDev"
    /\ UNCHANGED <<nvec, devices, i, j, key, subkey1, subkey2, subkey3, keys,
                   X, y, state, task, timer, clock, outstanding, exc, times,
                   uses, annotations>>

\* line 82: for label, device in devices.items(); line 107 after the last one
ForDev ==
    /\ pc = "forDev"
    /\ IF j < Len(devices)
          THEN /\ j' = j + 1
               /\ pc' = "splitChains"
          ELSE /\ j' = 0
               /\ pc' = "forN"
    /\ UNCHANGED <<nvec, devices, i, key, subkey1, subkey2, subkey3, keys, X,
                   y, state, task, timer, clock, outstanding, exc, times, uses,
                   log, annotations>>

\* line 85: keys = random.split(subkey3, nchains)
SplitChains ==
    /\ pc = "splitChains"
    /\ keys' = [bound |-> TRUE, ks |-> split(subkey3, nchains), on |-> "host"]
    /\ uses' = Append(uses, Use(subkey3, "split"))
    /\ log' = Logged("splitChains")
    /\ pc' = "put"
    /\ UNCHANGED <<nvec, devices, i, j, key, subkey1, subkey2, subkey3, X, y,
                   state, task, timer, clock, outstanding, exc, times,
                   annotations>>

\* line 86: state, keys = jax.device_put((state, keys), device)
\* Reading the name `state` while it is unbound raises NameError.
DevicePut ==
    /\ pc = "put"
    /\ IF state.bound
          THEN /\ state' = [state EXCEPT !.on = label]
               /\ keys' = [keys EXCEPT !.on = label]
               /\ log' = Logged("put")
               /\ pc' = "defTask"
          ELSE /\ log' = Logged("raise")
               /\ pc' = "aborted"
               /\ UNCHANGED <<state, keys>>
    /\ UNCHANGED <<nvec, devices, i, j, key, subkey1, subkey2, subkey3, X, y,
                   task, timer, clock, outstanding, exc, times, uses,
                   annotations>>

\* lines 89-92: task = jax.jit(jax.vmap(...)), not compiled yet
DefTask ==
    /\ pc = "defTask"
    /\ task' = [bound |-> TRUE, kind |-> "jit", n |-> 0, on |-> "none"]
    /\ log' = Logged("defTask")
    /\ pc' = "compile"
    /\ UNCHANGED <<nvec, devices, i, j, key, subkey1, subkey2, subkey3, keys,
                   X, y, state, timer, clock, outstanding, exc, times, uses,
                   annotations>>

\* a slip: the jit-wrapped task is left to compile on its first call
CompileTaskLazy ==
    /\ pc = "compile"
    /\ pc' = "enter"
    /\ UNCHANGED <<nvec, devices, i, j, key, subkey1, subkey2, subkey3, keys,
                   X, y, state, task, timer, clock, outstanding, exc, times,
                   uses, log, annotations>>

\* line 93: task = task.lower(state, keys).compile()
\* The executable is specialised to the shapes and the device of its inputs.
CompileTask ==
    /\ pc = "compile"
    /\ \E d \in 1..MaxTick : clock' = clock + d
    /\ task' = [bound |-> TRUE, kind |-> "compiled", n |-> state.n,
                on |-> state.on]
    /\ log' = Logged("compile")
    /\ pc' = "enter"
    /\ UNCHANGED <<nvec, devices, i, j, key, subkey1, subkey2, subkey3, keys,
                   X, y, state, timer, outstanding, exc, times, uses,
                   annotations>>

----------------------------------------------------------------------------
(* The Timer, lines 57-62, and the timed call, lines 95-97 *)

\* a slip: the end timestamp itself is stored
ElapsedEndOnly(end, start) == end

\* line 62: time.perf_counter() - self.start
Elapsed(end, start) == end - start

\* a slip: __exit__ returns True, which swallows the exception
TimerExitSuppresses == TRUE

\* line 61-62: __exit__ returns None, so the exception is not suppressed
TimerExitReturn == FALSE

\* lines 58-60, 96: with Timer() as timer
TimerEnter ==
    /\ pc = "enter"
    /\ timer' = [start |-> clock, time |-> NoTime]
    /\ log' = Logged("enter")
    /\ pc' = "call"
    /\ UNCHANGED <<nvec, devices, i, j, key, subkey1, subkey2, subkey3, keys,
                   X, y, state, task, clock, outstanding, exc, times, uses,
                   annotations>>

\* line 97: task(state, keys) dispatches the computation asynchronously.
\* A jit-wrapped task that was not compiled is compiled by its first call.
CallTask ==
    /\ pc = "call"
    /\ log' = IF task.kind = "compiled"
                 THEN Logged("call")
                 ELSE Append(Logged("compile"), Ev("call"))
    /\ uses' = uses \o UseAll(keys.ks, "task")
    /\ outstanding' = TRUE
    /\ pc' = "barrier"
    /\ UNCHANGED <<nvec, devices, i, j, key, subkey1, subkey2, subkey3, keys,
                   X, y, state, task, timer, clock, times, exc, annotations>>

\* a slip: the result of the call is not waited for
BlockUntilReadySkipped ==
    /\ pc = "barrier"
    /\ pc' = "exit"
    /\ UNCHANGED <<nvec, devices, i, j, key, subkey1, subkey2, subkey3, keys,
                   X, y, state, task, timer, clock, outstanding, exc, times,
                   uses, log, annotations>>

\* line 97: jax.block_until_ready(...) returns when the outputs are computed
BlockUntilReady ==
    /\ pc = "barrier"
    /\ \E d \in 1..MaxTick : clock' = clock + d
    /\ outstanding' = FALSE
    /\ log' = Logged("barrier")
    /\ pc' = "exit"
    /\ UNCHANGED <<nvec, devices, i, j, key, subkey1, subkey2, subkey3, keys,
                   X, y, state, task, timer, times, exc, uses, annotations>>

\* line 97: the call or the barrier raises; the with statement runs __exit__
FailInScope ==
    /\ pc \in {"call", "barrier"}
    /\ exc' = TRUE
    /\ outstanding' = FALSE
    /\ log' = Logged("raise")
    /\ pc' = "exit"
    /\ UNCHANGED <<nvec, devices, i, j, key, subkey1, subkey2, subkey3, keys,
                   X, y, state, task, timer, clock, times, uses, annotations>>

\* lines 61-62: __exit__, on the normal and on the exceptional path
TimerExit ==
    /\ pc = "exit"
    /\ timer' = [timer EXCEPT !.time = Elapsed(clock, timer.start)]
    /\ log' = Logged("exit")
    /\ IF exc /\ ~TimerExitReturn
          THEN /\ pc' = "aborted"
               /\ exc' = exc
          ELSE /\ pc' = "save"
               /\ exc' = FALSE
    /\ UNCHANGED <<nvec, devices, i, j, key, subkey1, subkey2, subkey3, keys,
                   X, y, state, task, clock, outstanding, times, uses,
                   annotations>>

----------------------------------------------------------------------------
(* After the timed call, lines 99-105 *)

\* a slip: times[label] = [timer.time] overwrites the device's list
SaveResultOverwrite(tbl, l, t) ==
    [k \in DOMAIN tbl \cup {l} |-> IF k = l THEN <<t>> ELSE tbl[k]]

\* line 100: times.setdefault(label, []).append(timer.time)
SaveResult(tbl, l, t) ==
    IF l \in DOMAIN tbl
       THEN [tbl EXCEPT ![l] = Append(@, t)]
       ELSE [k \in DOMAIN tbl \cup {l} |-> IF k = l THEN <<t>> ELSE tbl[k]]

Save ==
    /\ pc = "save"
    /\ times' = SaveResult(times, label, timer.time)
    /\ log' = Logged("save")
    /\ pc' = "delState"
    /\ UNCHANGED <<nvec, devices, i, j, key, subkey1, subkey2, subkey3, keys,
                   X, y, state, task, timer, clock, outstanding, exc, uses,
                   annotations>>

\* line 104: del state
DelState ==
    /\ pc = "delState"
    /\ state' = NoState
    /\ log' = Logged("delState")
    /\ pc' = "gcState"
    /\ UNCHANGED <<nvec, devices, i, j, key, subkey1, subkey2, subkey3, keys,
                   X, y, task, timer, clock, outstanding, exc, times, uses,
                   annotations>>

\* line 105: gc.collect()
GcState ==
    /\ pc = "gcState"
    /\ log' = Logged("gc")
    /\ pc' = "forDev"
    /\ UNCHANGED <<nvec, devices, i, j, key, subkey1, subkey2, subkey3, keys,
                   X, y, state, task, timer, clock, outstanding, exc, times,
                   uses, annotations>>

\* Outside the with block nothing catches an exception: the script ends.
FallibleSteps == {"genX", "genY", "build", "put", "compile"}

Fail ==
    /\ pc \in FallibleSteps
    /\ log' = Logged("raise")
    /\ pc' = "aborted"
    /\ UNCHANGED <<nvec, devices, i, j, key, subkey1, subkey2, subkey3, keys,
                   X, y, state, task, timer, clock, outstanding, exc, times,
                   uses, annotations>>

----------------------------------------------------------------------------
(* textbox, lines 109-165.  A Python value is a record tagged with its     *)
(* type: a string, a dict of strings, or a pair of numbers.  Numbers are   *)
(* fractions <<numerator, denominator>>, so that 0.5 is <<1, 2>>.          *)

NoDict == [k \in {} |-> ""]
NoPair == <<>>

Str(s) == [t |-> "str", s |-> s, d |-> NoDict, p |-> NoPair]
Dict(d) == [t |-> "dict", s |-> "", d |-> d, p |-> NoPair]
Pair(a, b) == [t |-> "tuple", s |-> "", d |-> NoDict, p |-> <<a, b>>]

Num(k) == <<k, 1>>
Half == <<1, 2>>

\* dict.update: the entries of b replace or extend those of a
DictUpdate(a, b) ==
    [k \in DOMAIN a \cup DOMAIN b |-> IF k \in DOMAIN b THEN b[k] ELSE a[k]]

LocParam(xy, xytext, va, ha) ==
    [xy |-> xy, xytext |-> xytext, va |-> Str(va), ha |-> Str(ha)]

Locs == {"lower left", "lower center", "lower right",
         "center left", "center center", "center right",
         "upper left", "upper center", "upper right"}

\* lines 134-144: the table, for an offset of m points
LocTable(m, loc) ==
    CASE loc = "lower left" ->
           LocParam(Pair(Num(0), Num(0)), Pair(Num(m), Num(m)), "bottom", "left")
      [] loc = "lower center" ->
           LocParam(Pair(Half, Num(0)), Pair(Num(0), Num(m)), "bottom", "center")
      [] loc = "lower right" ->
           LocParam(Pair(Num(1), Num(0)), Pair(Num(-m), Num(m)), "bottom", "right")
      [] loc = "center left" ->
           LocParam(Pair(Num(0), Half), Pair(Num(m), Num(0)), "center", "left")
      [] loc = "center center" ->
           LocParam(Pair(Half, Half), Pair(Num(0), Num(0)), "center", "center")
      [] loc = "center right" ->
           LocParam(Pair(Num(1), Half), Pair(Num(-m), Num(0)), "center", "right")
      [] loc = "upper left" ->
           LocParam(Pair(Num(0), Num(1)), Pair(Num(m), Num(-m)), "top", "left")
      [] loc = "upper center" ->
           LocParam(Pair(Half, Num(1)), Pair(Num(0), Num(-m)), "top", "center")
      [] loc = "upper right" ->
           LocParam(Pair(Num(1), Num(1)), Pair(Num(-m), Num(-m)), "top", "right")

\* a sign slip: the offsets point out of the axes
locparamsOutward(loc) == LocTable(-M, loc)

\* lines 133-144, 156: locparams[loc] with M = 8
locparams(loc) == LocTable(M, loc)

\* lines 149-154
DefaultBbox ==
    [facecolor |-> "white", alpha |-> "0.75", edgecolor |-> "#ccc",
     boxstyle |-> "round"]

\* lines 146-155: built anew by every call
DefaultKwargs ==
    [xycoords |-> Str("axes fraction"), textcoords |-> Str("offset points"),
     bbox |-> Dict(DefaultBbox)]

\* line 160: the keys of kw whose value and whose default are both dicts
Nested(kwargs, kw) ==
    {k \in DOMAIN kw :
        /\ kw[k].t = "dict"
        /\ k \in DOMAIN kwargs
        /\ kwargs[k].t = "dict"}

\* a slip: kwargs.update(kw) alone, which replaces a nested dict whole
MergeKwReplace(kwargs, kw) == DictUpdate(kwargs, kw)

\* lines 158-163: nested dicts are updated, everything else is replaced
MergeKw(kwargs, kw) ==
    LET nested == Nested(kwargs, kw)
        updated == [k \in DOMAIN kwargs |->
                      IF k \in nested
                         THEN Dict(DictUpdate(kwargs[k].d, kw[k].d))
                         ELSE kwargs[k]]
        newkw == [k \in DOMAIN kw \ nested |-> kw[k]]
    IN  DictUpdate(updated, newkw)

\* lines 146-165: the keyword arguments textbox passes to ax.annotate
textbox(loc, kw) == MergeKw(DictUpdate(DefaultKwargs, locparams(loc)), kw)

Annotate(loc, kw) == [loc |-> loc, kw |-> kw, args |-> textbox(loc, kw)]

----------------------------------------------------------------------------
(* The plot, lines 167-182 *)

NoKw == [k \in {} |-> Str("")]

\* lines 168-182; line 176 calls textbox(ax, ..., loc='lower right')
Plot ==
    /\ pc = "plot"
    /\ annotations' = Append(annotations, Annotate("lower right", NoKw))
    /\ log' = Logged("plot")
    /\ pc' = "done"
    /\ UNCHANGED <<nvec, devices, i, j, key, subkey1, subkey2, subkey3, keys,
                   X, y, state, task, timer, clock, outstanding, exc, times,
                   uses>>

----------------------------------------------------------------------------
Next ==
    \/ ForN
    \/ SplitKey
    \/ GenX
    \/ GenY
    \/ BuildState
    \/ DelData
    \/ GcData
    \/ ForDev
    \/ SplitChains
    \/ DevicePut
    \/ DefTask
    \/ CompileTask
    \/ TimerEnter
    \/ CallTask
    \/ BlockUntilReady
    \/ FailInScope
    \/ TimerExit
    \/ Save
    \/ DelState
    \/ GcState
    \/ Fail
    \/ Plot

Spec == Init /\ [][Next]_vars

----------------------------------------------------------------------------
(* textbox as a function of its arguments: the calls a caller can make *)

KwInputs ==
    { NoKw,
      [bbox |-> Dict([facecolor |-> "red"])],
      [bbox |-> Dict([alpha |-> "1", pad |-> "2"])],
      [bbox |-> Str("none")],
      [ha |-> Str("right"), arrowprops |-> Dict([width |-> "2"])],
      [bbox |-> Dict([edgecolor |-> "black"]), xycoords |-> Str("data")] }

InitTextbox ==
    /\ nvec = <<1>>
    /\ devices = <<"cpu">>
    /\ pc = "textbox"
    /\ i = 0
    /\ j = 0
    /\ key = RootKey
    /\ subkey1 = NoKey
    /\ subkey2 = NoKey
    /\ subkey3 = NoKey
    /\ keys = NoKeys
    /\ X = NoData
    /\ y = NoData
    /\ state = NoState
    /\ task = NoTask
    /\ timer = NoTimer
    /\ clock = 0
    /\ outstanding = FALSE
    /\ exc = FALSE
    /\ times = NoTimes
    /\ uses = <<>>
    /\ log = <<>>
    /\ annotations = <<>>

CallTextbox ==
    /\ pc = "textbox"
    /\ Len(annotations) < MaxCalls
    /\ \E loc \in Locs, kw \in KwInputs :
          annotations' = Append(annotations, Annotate(loc, kw))
    /\ UNCHANGED sweepvars

NextTextbox == CallTextbox

SpecTextbox == InitTextbox /\ [][NextTextbox]_vars

----------------------------------------------------------------------------
(* Reading the history *)

LogIdx == DOMAIN log

Events(op) == {k \in LogIdx : log[k].op = op}

\* the event op of the pair (a, b); each pair executes a statement once
EventOf(op, a, b) ==
    CHOOSE k \in LogIdx : log[k].op = op /\ log[k].i = a /\ log[k].j = b

\* the time between the two timestamps of the pair (a, b)
Measured(a, b) == log[EventOf("exit", a, b)].t - log[EventOf("enter", a, b)].t

\* the k-th pair of the sweep: sizes outer, devices inner
PairOf(k) == <<((k - 1) \div Len(devices)) + 1, ((k - 1) % Len(devices)) + 1>>

Saves == SelectSeq(log, LAMBDA e : e.op = "save")

Range(f) == {f[k] : k \in DOMAIN f}

IsPrefix(s, t) == Len(s) <= Len(t) /\ \A k \in DOMAIN s : s[k] = t[k]

SweepCompleted == pc \in {"plot", "done"}

----------------------------------------------------------------------------
(* C1: after a sweep that completes without failure the results table has  *)
(* one list per device label, of length |sizes|, whose k-th element is the *)
(* timing of the k-th size; the entries were appended in sweep order       *)
(* (sizes outer, devices inner), one per pair, and no step of the program  *)
(* ever overwrites or removes an entry.                                    *)

C1_Table ==
    /\ \A k \in DOMAIN Saves : <<Saves[k].i, Saves[k].j>> = PairOf(k)
    /\ \A l \in DOMAIN times :
          /\ l \in Range(devices)
          /\ Len(times[l]) =
                Cardinality({k \in Events("save") : devices[log[k].j] = l})
    /\ SweepCompleted =>
          /\ DOMAIN times = Range(devices)
          /\ Len(Saves) = Len(nvec) * Len(devices)
          /\ \A b \in DOMAIN devices :
                /\ Len(times[devices[b]]) = Len(nvec)
                /\ \A a \in DOMAIN nvec :
                      times[devices[b]][a] = Measured(a, b)

C1_AppendOnly ==
    \A l \in DOMAIN times :
        /\ l \in DOMAIN times'
        /\ IsPrefix(times[l], times'[l])

----------------------------------------------------------------------------
(* C2: whenever the per-device step of any device, first or later, starts, *)
(* the state built for the current n is bound and can be placed on the     *)
(* device.                                                                 *)

C2_StateAvailable ==
    pc \in {"splitChains", "put"} => state.bound /\ state.n = n

----------------------------------------------------------------------------
(* C3: no key is consumed twice: the keys passed to a split or to a draw,  *)
(* over the whole sweep, are pairwise distinct.                            *)

C3_KeyConsumedOnce ==
    \A a, b \in DOMAIN uses : a # b => uses[a].key # uses[b].key

----------------------------------------------------------------------------
(* The timed window of an event: the latest Timer entry before it that has *)
(* not been left yet.                                                      *)

InWindow(k) ==
    \E e \in Events("enter") :
        /\ e < k
        /\ \A x \in e..k : log[x].op # "exit"

\* the entry that the exit event k leaves
EnterOf(k) ==
    CHOOSE e \in Events("enter") :
        /\ e < k
        /\ \A x \in Events("enter") : x < k => x <= e

----------------------------------------------------------------------------
(* C4: for every pair the task is compiled, for the shape and the device   *)
(* of the current state, before the start timestamp is taken, by a compile *)
(* of that pair's own build step, and nothing is compiled between the      *)
(* start and the end timestamp.                                            *)

C4_CompiledBeforeTimer ==
    /\ \A e \in Events("enter") :
          \E c \in Events("compile") :
              /\ c < e
              /\ log[c].i = log[e].i
              /\ log[c].j = log[e].j
    /\ \A c \in Events("compile") : ~InWindow(c)
    /\ pc \in {"enter", "call"} =>
          /\ task.kind = "compiled"
          /\ task.n = n
          /\ task.on = label

C4_Witness ==
    /\ pc = "save"
    /\ i = 2
    /\ Cardinality(Events("compile")) = 2
    /\ task.n = nvec[2]

----------------------------------------------------------------------------
(* C5: the end timestamp is never taken while the dispatched computation   *)
(* is outstanding, and every scope that ends without an exception has the  *)
(* call and then the barrier between its two timestamps, the barrier       *)
(* having finished when the end timestamp is taken.                        *)

C5_BarrierInsideTimer ==
    /\ pc = "exit" => ~outstanding
    /\ \A k \in Events("exit") :
          \/ log[k - 1].op = "raise"
          \/ /\ k > 3
             /\ log[k - 1].op = "barrier"
             /\ log[k - 2].op = "call"
             /\ log[k - 3].op = "enter"
             /\ log[k - 1].t < log[k].t

C5_Witness ==
    /\ pc = "save"
    /\ log[Len(log) - 1].op = "barrier"
    /\ timer.time > 0

----------------------------------------------------------------------------
(* C6: when a step fails, nothing but the Timer's own exit runs after it:  *)
(* no later pair is visited, no timing is saved for the failing pair, the  *)
(* table holds the entries saved before the failure, and the plot is not   *)
(* drawn.                                                                  *)

SavesBefore(k, l) ==
    {x \in Events("save") : x < k /\ devices[log[x].j] = l}

C6_FailureAborts ==
    /\ \A k \in Events("raise") :
          /\ \A x \in LogIdx : x > k => log[x].op = "exit"
          /\ pc \in {"exit", "aborted"}
          /\ \A x \in Events("save") :
                x < k /\ <<log[x].i, log[x].j>> # <<log[k].i, log[k].j>>
          /\ \A l \in DOMAIN times :
                Len(times[l]) = Cardinality(SavesBefore(k, l))
          /\ Events("plot") = {}
          /\ annotations = <<>>
    /\ pc = "aborted" => Events("raise") # {} /\ ~ENABLED Next

C6_Witness ==
    /\ pc = "aborted"
    /\ i = 2
    /\ j = 1
    /\ log[Len(log)].op = "exit"
    /\ DOMAIN times = {devices[1]}
    /\ Len(times[devices[1]]) = 1

----------------------------------------------------------------------------
(* C9: no dataset is live from the first per-device step of a size to the  *)
(* end of its device loop, and none is live when the next one is           *)
(* generated; every per-device step starts right after a release (of the   *)
(* dataset, or of the state of the previous pair) and a collection.        *)

DeviceSteps ==
    {"forDev", "splitChains", "put", "defTask", "compile", "enter", "call",
     "barrier", "exit", "save", "delState", "gcState"}

C9_ReleasedBeforeDevices ==
    /\ pc \in DeviceSteps => ~X.bound /\ ~y.bound
    /\ pc \in {"split", "genX"} => ~X.bound /\ ~y.bound /\ ~state.bound
    /\ \A k \in Events("splitChains") :
          /\ k > 2
          /\ log[k - 1].op = "gc"
          /\ log[k - 2].op = IF log[k].j = 1 THEN "delData" ELSE "delState"
    /\ \A k \in Events("split") :
          k > 1 => log[k - 1].op = "gc" /\ log[k - 2].op = "delState"
    /\ \A k \in Events("save") :
          Len(log) >= k + 2 => log[k + 1].op = "delState" /\ log[k + 2].op = "gc"

C9_Witness ==
    /\ pc = "call"
    /\ i = 2
    /\ state.bound
    /\ ~X.bound

----------------------------------------------------------------------------
(* C10: the Timer sets its elapsed time on the normal and on the           *)
(* exceptional exit, as the end timestamp minus the start timestamp of     *)
(* its entry; an exception raised in the scope leaves the Timer, ends the  *)
(* script, and no timing is saved for that scope.                          *)

C10_TimerExit ==
    /\ pc \in {"call", "barrier", "exit"} => timer.time = NoTime
    /\ pc \notin {"call", "barrier", "exit"} =>
          Cardinality(Events("exit")) = Cardinality(Events("enter"))
    /\ \A k \in Events("exit") :
          /\ k = Len(log) =>
                /\ timer.start = log[EnterOf(k)].t
                /\ timer.time = log[k].t - log[EnterOf(k)].t
          /\ log[k - 1].op = "raise" =>
                /\ k = Len(log)
                /\ pc = "aborted"
                /\ exc
                /\ \A x \in Events("save") :
                      <<log[x].i, log[x].j>> # <<log[k].i, log[k].j>>

C10_Witness ==
    /\ pc = "aborted"
    /\ exc
    /\ log[Len(log)].op = "exit"
    /\ timer.start > 0
    /\ timer.time = 0

----------------------------------------------------------------------------
(* C7: for each of the nine positions 'v h', v in lower/center/upper and   *)
(* h in left/center/right, textbox passes the anchor fraction (x, y) with  *)
(* x = 0, 1/2, 1 for left, center, right and y = 0, 1/2, 1 for lower,      *)
(* center, upper, the offset in points +8, 0, -8 in x for left, center,    *)
(* right and in y for lower, center, upper, and the alignment ha = h,      *)
(* va = bottom, center, top (each unless the caller overrides that key).   *)

LocName(v, h) ==
    CASE v = "lower" /\ h = "left" -> "lower left"
      [] v = "lower" /\ h = "center" -> "lower center"
      [] v = "lower" /\ h = "right" -> "lower right"
      [] v = "center" /\ h = "left" -> "center left"
      [] v = "center" /\ h = "center" -> "center center"
      [] v = "center" /\ h = "right" -> "center right"
      [] v = "upper" /\ h = "left" -> "upper left"
      [] v = "upper" /\ h = "center" -> "upper center"
      [] v = "upper" /\ h = "right" -> "upper right"

\* the position of a word in its axis: 0 for left/lower, 1 for center,
\* 2 for right/upper
Position(w) ==
    CASE w \in {"left", "lower"} -> 0
      [] w = "center" -> 1
      [] w \in {"right", "upper"} -> 2

ExpectedFraction(w) ==
    CASE Position(w) = 0 -> <<0, 1>>
      [] Position(w) = 1 -> <<1, 2>>
      [] Position(w) = 2 -> <<1, 1>>

ExpectedOffset(w) ==
    CASE Position(w) = 0 -> <<8, 1>>
      [] Position(w) = 1 -> <<0, 1>>
      [] Position(w) = 2 -> <<-8, 1>>

ExpectedVa(v) ==
    CASE v = "lower" -> "bottom"
      [] v = "center" -> "center"
      [] v = "upper" -> "top"

Passed(a, k) == k \in DOMAIN a.args

C7_Placement ==
    \A k \in DOMAIN annotations :
        \A v \in {"lower", "center", "upper"}, h \in {"left", "center", "right"} :
            LET a == annotations[k] IN
            a.loc = LocName(v, h) =>
                /\ \A f \in {"xy", "xytext", "va", "ha", "xycoords", "textcoords"} :
                      Passed(a, f)
                /\ "xy" \notin DOMAIN a.kw =>
                      /\ a.args["xy"].t = "tuple"
                      /\ a.args["xy"].p = <<ExpectedFraction(h), ExpectedFraction(v)>>
                /\ "xytext" \notin DOMAIN a.kw =>
                      /\ a.args["xytext"].t = "tuple"
                      /\ a.args["xytext"].p = <<ExpectedOffset(h), ExpectedOffset(v)>>
                /\ "ha" \notin DOMAIN a.kw =>
                      /\ a.args["ha"].t = "str"
                      /\ a.args["ha"].s = h
                /\ "va" \notin DOMAIN a.kw =>
                      /\ a.args["va"].t = "str"
                      /\ a.args["va"].s = ExpectedVa(v)
                /\ "xycoords" \notin DOMAIN a.kw =>
                      a.args["xycoords"].s = "axes fraction"
                /\ "textcoords" \notin DOMAIN a.kw =>
                      a.args["textcoords"].s = "offset points"

C7_Witness ==
    /\ Len(annotations) >= 2
    /\ annotations[1].loc = "lower left"
    /\ annotations[1].args["xytext"].p = <<(<<8, 1>>), (<<8, 1>>)>>
    /\ annotations[1].args["xy"].p = <<(<<0, 1>>), (<<0, 1>>)>>
    /\ annotations[1].args["va"].s = "bottom"
    /\ annotations[2].loc = "center right"
    /\ annotations[2].args["xytext"].p = <<(<<-8, 1>>), (<<0, 1>>)>>
    /\ annotations[2].args["xy"].p = <<(<<1, 1>>), (<<1, 2>>)>>

----------------------------------------------------------------------------
(* C8: in every call, whatever the calls before it: a dict given for bbox  *)
(* replaces the fields it names and keeps the default value of every       *)
(* other field of the default bbox; any other caller value (a value that   *)
(* is no dict, or a key whose default is no dict) is passed as given; a    *)
(* call without bbox gets the default bbox; and two calls with the same    *)
(* arguments get the same keyword arguments.                               *)

ExpectedBboxField(f) ==
    CASE f = "facecolor" -> "white"
      [] f = "alpha" -> "0.75"
      [] f = "edgecolor" -> "#ccc"
      [] f = "boxstyle" -> "round"

BboxFields == {"facecolor", "alpha", "edgecolor", "boxstyle"}

C8_Merge ==
    /\ \A c \in DOMAIN annotations :
          LET a == annotations[c] IN
          /\ "bbox" \in DOMAIN a.args
          /\ \A k \in DOMAIN a.kw : k \in DOMAIN a.args
          /\ \A k \in DOMAIN a.kw :
                IF k = "bbox" /\ a.kw[k].t = "dict"
                   THEN /\ a.args[k].t = "dict"
                        /\ DOMAIN a.args[k].d = BboxFields \cup DOMAIN a.kw[k].d
                        /\ \A f \in DOMAIN a.args[k].d :
                              a.args[k].d[f] =
                                 IF f \in DOMAIN a.kw[k].d
                                    THEN a.kw[k].d[f]
                                    ELSE ExpectedBboxField(f)
                   ELSE a.args[k] = a.kw[k]
          /\ "bbox" \notin DOMAIN a.kw =>
                /\ a.args["bbox"].t = "dict"
                /\ DOMAIN a.args["bbox"].d = BboxFields
                /\ \A f \in BboxFields :
                      a.args["bbox"].d[f] = ExpectedBboxField(f)
    /\ \A c, e \in DOMAIN annotations :
          annotations[c].loc = annotations[e].loc
             /\ annotations[c].kw = annotations[e].kw
          => annotations[c].args = annotations[e].args

C8_Witness ==
    /\ Len(annotations) = 2
    /\ "bbox" \in DOMAIN annotations[1].kw
    /\ annotations[1].kw["bbox"].t = "dict"
    /\ DOMAIN annotations[1].kw["bbox"].d = {"alpha", "pad"}
    /\ annotations[1].args["bbox"].d["alpha"] = "1"
    /\ annotations[1].args["bbox"].d["pad"] = "2"
    /\ annotations[1].args["bbox"].d["facecolor"] = "white"
    /\ annotations[2].kw = NoKw
    /\ annotations[2].args["bbox"].d["alpha"] = "0.75"

====
